---------------------------- MODULE Spec2Model ----------------------------
(***************************************************************************)
(* Model of the cached resume-processing service:                         *)
(*   src/backend/cache_manager.py  (CacheManager: keys, get/store)        *)
(*   src/backend/app.py            (parse_resume, screen_resume handlers) *)
(*   src/main.py, src/screener.py  (the Extractor and Scorer oracles)     *)
(*                                                                         *)
(* Each handler is a sequence of steps, one per blocking I/O operation     *)
(* (store read, store write, oracle call).  Requests run in the worker     *)
(* slots of Workers; Spec interleaves them freely, SeqSpec admits a new    *)
(* request only when no other is in flight.                                *)
(*                                                                         *)
(* Optional values (Python None) are sequences of length 0 or 1.           *)
(* Strings are sequences of one-character strings.                         *)
(***************************************************************************)
EXTENDS Integers, Sequences, FiniteSets, TLC

\* ----------------------------------------------------------------- bounds
MaxRequests == 2

\* Requests received in a race for one document and one job.
MaxRaceRequests == 3

\* Worker slots of the server; a request takes the lowest free one.
Workers == {1, 2}

\* Distinct successful answers an oracle may give for the same input.
Variants == {1, 2}

\* ---------------------------------------------------------------- strings
Lower(c) ==
    CASE c = "P" -> "p" [] c = "D" -> "d" [] c = "F" -> "f" [] OTHER -> c

lower(s) == [i \in 1..Len(s) |-> Lower(s[i])]

endswith(s, suf) ==
    /\ Len(s) >= Len(suf)
    /\ SubSeq(s, Len(s) - Len(suf) + 1, Len(s)) = suf

AllowedExtensions ==
    { <<".", "p", "d", "f">>, <<".", "d", "o", "c", "x">>, <<".", "d", "o", "c">> }

\* ------------------------------------------------------------ fingerprints
\* Uploaded documents (byte strings).
Docs == { <<0>>, <<0, 1>> }

\* A digest that ignores the bytes hashed.
MutHashConstant(file_bytes) == <<"6", "e">>

\* hashlib.sha256(b).hexdigest(): a fixed-length string of hex digits.  The
\* digests below are the leading hex digits of the real SHA-256 of each
\* document of Docs; distinct documents have distinct digests.
hash_file(file_bytes) ==
    CASE file_bytes = <<0>>    -> <<"6", "e">>
      [] file_bytes = <<0, 1>> -> <<"b", "4">>

\* hashlib.sha256(s.encode()).hexdigest() of a composite string: an opaque
\* digest, injective in the string hashed.
sha256(s) == <<"sha256", s>>

composite_key(file_hash, job_title, job_description) ==
    file_hash \o <<":">> \o job_title \o <<":">> \o job_description

MutKeyWithoutDocument(file_hash, job_title, job_description) ==
    sha256(job_title \o <<":">> \o job_description)

generate_screening_key(file_hash, job_title, job_description) ==
    sha256(composite_key(file_hash, job_title, job_description))

\* ------------------------------------------------------------------ inputs
\* Job texts.  The first two differ in both components and contain the ':'
\* character; the third is an unrelated job.
JobTexts ==
    { << <<"a">>, <<"b", ":", "c">> >>,
      << <<"a", ":", "b">>, <<"c">> >>,
      << <<"a">>, <<"c">> >> }

Categories == {"skills", "experience", "education", "projects", "cultural_fit"}

\* Weight mappings, in whole percent.
CustomWeights ==
    [skills |-> 50, experience |-> 20, education |-> 10, projects |-> 10,
     cultural_fit |-> 10]
PartialWeights == [skills |-> 60, experience |-> 40]

\* The text of the "weights" form field: a JSON object or malformed text.
JsonObject(v) == <<"object", v>>
MalformedJson == <<"malformed">>

GoodFile(doc) == << [filename |-> <<"r", ".", "P", "D", "F">>, bytes |-> doc] >>

ScreenForm(doc, job, w) ==
    [endpoint |-> "screen", file |-> GoodFile(doc),
     job_title |-> <<job[1]>>, job_description |-> <<job[2]>>, weights |-> w]

ParseForm(doc) ==
    [endpoint |-> "parse", file |-> GoodFile(doc),
     job_title |-> <<>>, job_description |-> <<>>, weights |-> <<>>]

ValidWeightFields == { <<>>, <<JsonObject(CustomWeights)>> }

AnyDoc == <<0>>
OtherDoc == <<0, 1>>
AnyJob == << <<"a">>, <<"c">> >>

ValidScreenForms ==
    { ScreenForm(AnyDoc, j, w) : j \in JobTexts, w \in ValidWeightFields }
    \cup { ScreenForm(OtherDoc, AnyJob, <<>>) }

ValidParseForms == { ParseForm(d) : d \in Docs }

\* Requests a client may send that the handlers reject or that fail in the
\* Scorer because of the weights.
OddForms ==
    { [ScreenForm(AnyDoc, AnyJob, <<>>) EXCEPT !.file = <<>>],
      [ScreenForm(AnyDoc, AnyJob, <<>>) EXCEPT
          !.file = << [filename |-> <<>>, bytes |-> AnyDoc] >>],
      [ScreenForm(AnyDoc, AnyJob, <<>>) EXCEPT
          !.file = << [filename |-> <<"r", ".", "t", "x", "t">>, bytes |-> AnyDoc] >>],
      [ScreenForm(AnyDoc, AnyJob, <<>>) EXCEPT !.job_title = <<>>],
      [ScreenForm(AnyDoc, AnyJob, <<>>) EXCEPT !.job_description = << <<>> >>],
      ScreenForm(AnyDoc, AnyJob, <<MalformedJson>>),
      ScreenForm(AnyDoc, AnyJob, <<JsonObject(PartialWeights)>>),
      [ParseForm(AnyDoc) EXCEPT !.file = <<>>],
      [ParseForm(AnyDoc) EXCEPT
          !.file = << [filename |-> <<>>, bytes |-> AnyDoc] >>],
      [ParseForm(AnyDoc) EXCEPT
          !.file = << [filename |-> <<"r", ".", "t", "x", "t">>, bytes |-> AnyDoc] >>] }

Forms == ValidScreenForms \cup ValidParseForms \cup OddForms


\* ------------------------------------------------------------------- state
VARIABLES
    parsed_resumes,     \* table "parsed_resumes": rows [file_hash, parsed_data]
    screening_results,  \* table "screening_results": rows keyed by screening_key
    req,                \* per worker: the request being handled and its locals
    nreq,               \* requests received so far
    prev                \* the request that completed last (0 or 1 summaries)

vars == <<parsed_resumes, screening_results, req, nreq, prev>>

NoForm == ParseForm(AnyDoc)

\* What a request has done so far (history variables, not program state).
\* seen_*: what a successful cache read found stored at the time it ran.
\* changed_*: a write of the request changed the contents of the table.
\* start: what the store held for this request when it arrived ("empty": no
\* row at all; "complete": every row the request looks up; else "partial").
NoLog ==
    [read_faults |-> FALSE, write_faults |-> FALSE, store_ok |-> FALSE,
     screening_reads |-> 0, parsed_reads |-> 0,
     parsed_writes |-> 0, screening_writes |-> 0,
     changed_parsed |-> FALSE, changed_screening |-> FALSE,
     extractor_calls |-> 0, scorer_calls |-> 0,
     seen_screening |-> <<>>, seen_parsed |-> <<>>, seen_parsed_2 |-> <<>>,
     extracted |-> <<>>, scored |-> <<>>, start |-> "empty"]

Idle ==
    [pc |-> "idle", form |-> NoForm, file_hash |-> <<>>, weights |-> <<>>,
     screening_result |-> <<>>, parsed_resume |-> <<>>, parsed |-> <<>>,
     screened |-> <<>>, parsed_cached |-> FALSE, response |-> <<>>,
     log |-> NoLog]

\* ----------------------------------------------------------------- oracles
\* Extractor (ResumeProcessor.parse_resume_from_bytes): the structured profile
\* it returns on success; an opaque payload, never empty (full_name and
\* contact_info are required fields of the schema).
ExtractorPayload(file_bytes, v) == [doc |-> file_bytes, v |-> v]

DefaultWeights ==
    [skills |-> 30, experience |-> 25, education |-> 15, projects |-> 15,
     cultural_fit |-> 5]

\* ResumeScreener.screen_resume, up to the oracle call: the weights that go
\* into the prompt.
effective_weights(weights) == IF weights = <<>> THEN DefaultWeights ELSE weights[1]

\* Formatting the prompt indexes the mapping by each of the five categories.
prompt_formattable(weights) ==
    Categories \subseteq DOMAIN effective_weights(weights)

\* Scorer: the screening result it returns on success, for the inputs given.
ScorerPayload(parsed, job_title, job_description, weights, v) ==
    [parsed |-> parsed, job_title |-> job_title,
     job_description |-> job_description,
     weights |-> effective_weights(weights), v |-> v]

\* ------------------------------------------------------------ cache manager
parsed_rows(file_hash) == { r \in parsed_resumes : r.file_hash = file_hash }

screening_rows(screening_key) ==
    { r \in screening_results : r.screening_key = screening_key }

\* What the table holds for a key (0 or 1 payloads), whatever a read returns.
stored_parsed(file_hash) ==
    IF parsed_rows(file_hash) = {} THEN <<>>
    ELSE << (CHOOSE r \in parsed_rows(file_hash) : TRUE).parsed_data >>

stored_screening(screening_key) ==
    IF screening_rows(screening_key) = {} THEN <<>>
    ELSE << (CHOOSE r \in screening_rows(screening_key) : TRUE).screening_data >>

\* What a call returns to the handler: a value, or an exception that the
\* handler's own except branch turns into a server error.
Returned(v) == [raised |-> FALSE, value |-> v]

Raised == [raised |-> TRUE, value |-> <<>>]

\* What a store method hands back: its result and the table's new contents.
Stored(ok, table) == [raised |-> FALSE, value |-> ok, table |-> table]

\* In the four methods below store_ok = FALSE is a store call that raises
\* (connectivity, serialization); each method catches it in its except branch.
MutGetParsedAlwaysMiss(file_hash, store_ok) == Returned(<<>>)

get_parsed_resume(file_hash, store_ok) ==
    IF store_ok THEN Returned(stored_parsed(file_hash)) ELSE Returned(<<>>)

MutGetScreeningUncaught(file_hash, job_title, job_description, store_ok) ==
    IF store_ok
    THEN Returned(stored_screening(
                    generate_screening_key(file_hash, job_title, job_description)))
    ELSE Raised

MutGetScreeningByHashOnly(file_hash, job_title, job_description, store_ok) ==
    IF store_ok THEN Returned(stored_screening(sha256(file_hash))) ELSE Returned(<<>>)

get_screening_result(file_hash, job_title, job_description, store_ok) ==
    IF store_ok
    THEN Returned(stored_screening(
                    generate_screening_key(file_hash, job_title, job_description)))
    ELSE Returned(<<>>)

\* Writes that replace the whole table by the row written.
MutUpsertParsedClears(row) == {row}

MutUpsertScreeningClears(row) == {row}

upsert_parsed(row) ==
    { r \in parsed_resumes : r.file_hash # row.file_hash } \cup {row}

upsert_screening(row) ==
    { r \in screening_results : r.screening_key # row.screening_key } \cup {row}

MutStoreParsedDropped(file_hash, parsed_data, store_ok) ==
    Stored(store_ok, parsed_resumes)

MutStoreParsedUncaught(file_hash, parsed_data, store_ok) ==
    IF store_ok
    THEN Stored(TRUE, upsert_parsed([file_hash |-> file_hash,
                                     parsed_data |-> parsed_data]))
    ELSE [raised |-> TRUE, value |-> FALSE, table |-> parsed_resumes]

\* An insert that keeps the row already stored under the hash.
MutStoreParsedKeepsFirst(file_hash, parsed_data, store_ok) ==
    IF store_ok
    THEN Stored(TRUE, IF parsed_rows(file_hash) # {} THEN parsed_resumes
                      ELSE upsert_parsed([file_hash |-> file_hash,
                                          parsed_data |-> parsed_data]))
    ELSE Stored(FALSE, parsed_resumes)

store_parsed_resume(file_hash, parsed_data, store_ok) ==
    IF store_ok
    THEN Stored(TRUE, upsert_parsed([file_hash |-> file_hash,
                                     parsed_data |-> parsed_data]))
    ELSE Stored(FALSE, parsed_resumes)

MutStoreScreeningDropped(file_hash, job_title, job_description, screening_data, store_ok) ==
    Stored(store_ok, screening_results)

store_screening_result(file_hash, job_title, job_description, screening_data, store_ok) ==
    IF store_ok
    THEN Stored(TRUE, upsert_screening(
           [screening_key |-> generate_screening_key(file_hash, job_title, job_description),
            file_hash |-> file_hash, job_title |-> job_title,
            job_description |-> job_description, screening_data |-> screening_data]))
    ELSE Stored(FALSE, screening_results)

MutCompleteIfScreening(screening_result, parsed_resume) ==
    IF screening_result # <<>>
    THEN << [parsed |-> parsed_resume, screened |-> screening_result] >>
    ELSE <<>>

MutCompleteIfEither(screening_result, parsed_resume) ==
    IF screening_result # <<>> \/ parsed_resume # <<>>
    THEN << [parsed |-> parsed_resume, screened |-> screening_result] >>
    ELSE <<>>

\* The decision of get_complete_result once its two reads have returned.
get_complete_result(screening_result, parsed_resume) ==
    IF screening_result # <<>> /\ parsed_resume # <<>>
    THEN << [parsed |-> parsed_resume, screened |-> screening_result] >>
    ELSE <<>>

\* --------------------------------------------------------------- responses
ClientError(msg) == [status |-> 400, body |-> [error |-> msg]]

ServerError(msg) == [status |-> 500, body |-> [success |-> FALSE, error |-> msg]]

ParseOk(data, cached, file_hash) ==
    [status |-> 200,
     body |-> [success |-> TRUE, data |-> data, cached |-> cached,
               file_hash |-> file_hash]]

ScreenOk(parsed, screened, parsed_cached, screening_cached, file_hash) ==
    [status |-> 200,
     body |-> [success |-> TRUE,
               data |-> [parsed |-> parsed, screened |-> screened],
               cache_status |-> [parsed_cached |-> parsed_cached,
                                 screening_cached |-> screening_cached,
                                 file_hash |-> file_hash]]]

\* ------------------------------------------------------- request validation
MutBadFileNoExtensionCheck(form) ==
    IF form.file = <<>> THEN <<ClientError("No file provided")>>
    ELSE IF form.file[1].filename = <<>> THEN <<ClientError("No file selected")>>
    ELSE <<>>

bad_file(form) ==
    IF form.file = <<>> THEN <<ClientError("No file provided")>>
    ELSE IF form.file[1].filename = <<>> THEN <<ClientError("No file selected")>>
    ELSE IF ~ \E ext \in AllowedExtensions : endswith(lower(form.file[1].filename), ext)
    THEN <<ClientError("Invalid file format. Only PDF and DOCX are supported")>>
    ELSE <<>>

falsy(field) == field = <<>> \/ field[1] = <<>>

\* The response of screen_resume's checks before any core work; <<>> when the
\* request passes them all.
screen_rejection(form) ==
    IF bad_file(form) # <<>> THEN bad_file(form)
    ELSE IF falsy(form.job_title) \/ falsy(form.job_description)
    THEN <<ClientError("job_title and job_description are required")>>
    ELSE IF form.weights # <<>> /\ form.weights[1] = MalformedJson
    THEN <<ServerError("JSONDecodeError")>>
    ELSE <<>>

json_loads(text) == text[2]


\* ----------------------------------------------------------------- actions
Init ==
    /\ parsed_resumes = {}
    /\ screening_results = {}
    /\ req = [w \in Workers |-> Idle]
    /\ nreq = 0
    /\ prev = <<>>

Free(w) == req[w].pc \in {"idle", "done"}

\* No request is in flight.
Quiescent == \A w \in Workers : Free(w)

LowestFree(w) == Free(w) /\ \A v \in Workers : v < w => ~Free(v)

StoreEmpty == parsed_resumes = {} /\ screening_results = {}

StoreAtStart(form) ==
    LET h == hash_file(form.file[1].bytes) IN
    IF StoreEmpty THEN "empty"
    ELSE IF /\ stored_parsed(h) # <<>>
            /\ form.endpoint = "screen" =>
                 stored_screening(generate_screening_key(
                     h, form.job_title[1], form.job_description[1])) # <<>>
    THEN "complete"
    ELSE "partial"

LogRead(log, store_ok) ==
    [log EXCEPT !.read_faults = @ \/ ~store_ok, !.store_ok = @ \/ store_ok]

LogWrite(log, store_ok) ==
    [log EXCEPT !.write_faults = @ \/ ~store_ok, !.store_ok = @ \/ store_ok]

Seen(store_ok, stored) == IF store_ok THEN stored ELSE <<>>

Healthy(log) == ~log.read_faults /\ ~log.write_faults

Summary(r) ==
    [form |-> r.form, response |-> r.response[1], healthy |-> Healthy(r.log),
     extractor_calls |-> r.log.extractor_calls,
     scorer_calls |-> r.log.scorer_calls]

\* A request is admitted to worker w.  A sequential client (seq) sends it
\* only when no request is in flight; prev then is the request before it.
Admit(w, seq) ==
    /\ LowestFree(w)
    /\ nreq < MaxRequests
    /\ seq => Quiescent
    /\ nreq' = nreq + 1
    /\ prev' = IF seq /\ req[w].pc = "done" THEN <<Summary(req[w])>> ELSE prev

Answer(r, response) == [r EXCEPT !.pc = "done", !.response = <<response>>]

\* An exception that reaches the handler: its except branch answers.
Uncaught(r, l) == Answer([r EXCEPT !.log = l], ServerError("store error"))

Start(form, pc) ==
    [Idle EXCEPT !.pc = pc, !.form = form,
                 !.file_hash = <<hash_file(form.file[1].bytes)>>,
                 !.log.start = StoreAtStart(form)]

\* parse_resume up to the first cache read: the checks, file.read(), hash_file.
ReceiveParse(w, seq) ==
    /\ Admit(w, seq)
    /\ \E form \in Forms :
         /\ form.endpoint = "parse"
         /\ req' = [req EXCEPT ![w] =
              IF bad_file(form) # <<>>
              THEN Answer([Idle EXCEPT !.form = form], bad_file(form)[1])
              ELSE Start(form, "parse_get_parsed")]
    /\ UNCHANGED <<parsed_resumes, screening_results>>

\* screen_resume up to the first cache read: the checks, json.loads of the
\* weights, file.read(), hash_file.
ReceiveScreen(w, seq) ==
    /\ Admit(w, seq)
    /\ \E form \in Forms :
         /\ form.endpoint = "screen"
         /\ req' = [req EXCEPT ![w] =
              IF screen_rejection(form) # <<>>
              THEN Answer([Idle EXCEPT !.form = form], screen_rejection(form)[1])
              ELSE [Start(form, "get_screening") EXCEPT
                      !.weights = IF form.weights = <<>> THEN <<>>
                                  ELSE <<json_loads(form.weights[1])>>]]
    /\ UNCHANGED <<parsed_resumes, screening_results>>

\* parse_resume: the cache check and its hit branch.
ParseGetParsed(w) ==
    /\ req[w].pc = "parse_get_parsed"
    /\ \E store_ok \in BOOLEAN :
         LET r == req[w]
             h == r.file_hash[1]
             got == get_parsed_resume(h, store_ok)
             cached_parsed == got.value
             l == [LogRead(r.log, store_ok) EXCEPT
                     !.parsed_reads = @ + 1,
                     !.seen_parsed = Seen(store_ok, stored_parsed(h))]
         IN req' = [req EXCEPT ![w] =
              IF got.raised THEN Uncaught(r, l)
              ELSE IF cached_parsed # <<>>
              THEN Answer([r EXCEPT !.log = l], ParseOk(cached_parsed, TRUE, h))
              ELSE [r EXCEPT !.pc = "parse_extract", !.log = l]]
    /\ UNCHANGED <<parsed_resumes, screening_results, nreq, prev>>

\* An Extractor failure retried: the handler calls again.
MutCallExtractorRetries(w, next_pc) ==
    LET r == req[w]
        l == [r.log EXCEPT !.extractor_calls = @ + 1]
    IN
    \/ \E v \in Variants :
         LET parsed == ExtractorPayload(r.form.file[1].bytes, v) IN
         req' = [req EXCEPT ![w] =
                [r EXCEPT !.pc = next_pc, !.parsed = <<parsed>>,
                          !.log = [l EXCEPT !.extracted = <<parsed>>]]]
    \/ req' = [req EXCEPT ![w] = [r EXCEPT !.log = l]]

\* An Extractor failure swallowed: the handler goes on with a placeholder.
MutExtractorFailureSwallowed(w, next_pc) ==
    LET r == req[w]
        l == [r.log EXCEPT !.extractor_calls = @ + 1]
    IN
    \/ \E v \in Variants :
         LET parsed == ExtractorPayload(r.form.file[1].bytes, v) IN
         req' = [req EXCEPT ![w] =
                [r EXCEPT !.pc = next_pc, !.parsed = <<parsed>>,
                          !.log = [l EXCEPT !.extracted = <<parsed>>]]]
    \/ req' = [req EXCEPT ![w] =
                [r EXCEPT !.pc = next_pc,
                          !.parsed = <<ExtractorPayload(r.form.file[1].bytes, 0)>>,
                          !.log = l]]

\* The Extractor call of a handler: it returns a payload, or raises and the
\* handler's except branch answers.
CallExtractor(w, next_pc) ==
    LET r == req[w]
        l == [r.log EXCEPT !.extractor_calls = @ + 1]
    IN
    \/ \E v \in Variants :
         LET parsed == ExtractorPayload(r.form.file[1].bytes, v) IN
         req' = [req EXCEPT ![w] =
                [r EXCEPT !.pc = next_pc, !.parsed = <<parsed>>,
                          !.log = [l EXCEPT !.extracted = <<parsed>>]]]
    \/ req' = [req EXCEPT ![w] =
                Answer([r EXCEPT !.log = l], ServerError("extractor error"))]

ParseExtract(w) ==
    /\ req[w].pc = "parse_extract"
    /\ CallExtractor(w, "parse_store_parsed")
    /\ UNCHANGED <<parsed_resumes, screening_results, nreq, prev>>

\* parse_resume: store the fresh payload, then answer with it.
ParseStoreParsed(w) ==
    /\ req[w].pc = "parse_store_parsed"
    /\ \E store_ok \in BOOLEAN :
         LET r == req[w]
             h == r.file_hash[1]
             put == store_parsed_resume(h, r.parsed[1], store_ok)
             l == [LogWrite(r.log, store_ok) EXCEPT
                     !.parsed_writes = @ + 1,
                     !.changed_parsed = @ \/ put.table # parsed_resumes]
         IN /\ parsed_resumes' = put.table
            /\ req' = [req EXCEPT ![w] =
                 IF put.raised THEN Uncaught(r, l)
                 ELSE Answer([r EXCEPT !.log = l], ParseOk(r.parsed, FALSE, h))]
    /\ UNCHANGED <<screening_results, nreq, prev>>

\* The complete-hit check reading the parsed row only after a screening hit.
MutGetScreeningShortCircuits(w) ==
    /\ req[w].pc = "get_screening"
    /\ \E store_ok \in BOOLEAN :
         LET r == req[w]
             h == r.file_hash[1]
             jt == r.form.job_title[1]
             jd == r.form.job_description[1]
             stored == stored_screening(generate_screening_key(h, jt, jd))
             got == get_screening_result(h, jt, jd, store_ok)
             l == [LogRead(r.log, store_ok) EXCEPT
                     !.screening_reads = @ + 1,
                     !.seen_screening = Seen(store_ok, stored)]
         IN req' = [req EXCEPT ![w] =
              [r EXCEPT !.pc = IF got.value = <<>> THEN "get_parsed"
                               ELSE "get_parsed_complete",
                        !.screening_result = got.value, !.log = l]]
    /\ UNCHANGED <<parsed_resumes, screening_results, nreq, prev>>

\* LEVEL 1, first read of get_complete_result.
GetScreening(w) ==
    /\ req[w].pc = "get_screening"
    /\ \E store_ok \in BOOLEAN :
         LET r == req[w]
             h == r.file_hash[1]
             jt == r.form.job_title[1]
             jd == r.form.job_description[1]
             stored == stored_screening(generate_screening_key(h, jt, jd))
             got == get_screening_result(h, jt, jd, store_ok)
             l == [LogRead(r.log, store_ok) EXCEPT
                     !.screening_reads = @ + 1,
                     !.seen_screening = Seen(store_ok, stored)]
         IN req' = [req EXCEPT ![w] =
              IF got.raised THEN Uncaught(r, l)
              ELSE [r EXCEPT !.pc = "get_parsed_complete",
                             !.screening_result = got.value, !.log = l]]
    /\ UNCHANGED <<parsed_resumes, screening_results, nreq, prev>>

\* LEVEL 1, second read of get_complete_result, and the complete-hit branch.
GetParsedComplete(w) ==
    /\ req[w].pc = "get_parsed_complete"
    /\ \E store_ok \in BOOLEAN :
         LET r == req[w]
             h == r.file_hash[1]
             got == get_parsed_resume(h, store_ok)
             parsed_resume == got.value
             complete_cached == get_complete_result(r.screening_result, parsed_resume)
             l == [LogRead(r.log, store_ok) EXCEPT
                     !.parsed_reads = @ + 1,
                     !.seen_parsed = Seen(store_ok, stored_parsed(h))]
         IN req' = [req EXCEPT ![w] =
              IF got.raised THEN Uncaught(r, l)
              ELSE IF complete_cached # <<>>
              THEN Answer([r EXCEPT !.parsed_resume = parsed_resume, !.log = l],
                          ScreenOk(complete_cached[1].parsed,
                                   complete_cached[1].screened, TRUE, TRUE, h))
              ELSE [r EXCEPT !.pc = "get_parsed", !.parsed_resume = parsed_resume,
                             !.log = l]]
    /\ UNCHANGED <<parsed_resumes, screening_results, nreq, prev>>

\* The parsed-cache check storing the cached payload again on a hit.
MutGetParsedRestoresHit(w) ==
    /\ req[w].pc = "get_parsed"
    /\ \E store_ok \in BOOLEAN :
         LET r == req[w]
             h == r.file_hash[1]
             got == get_parsed_resume(h, store_ok)
             cached_parsed == got.value
             l == [LogRead(r.log, store_ok) EXCEPT
                     !.parsed_reads = @ + 1,
                     !.seen_parsed_2 = Seen(store_ok, stored_parsed(h))]
         IN req' = [req EXCEPT ![w] =
              IF cached_parsed # <<>>
              THEN [r EXCEPT !.pc = "store_parsed", !.parsed = cached_parsed,
                             !.parsed_cached = TRUE, !.log = l]
              ELSE [r EXCEPT !.pc = "extract", !.log = l]]
    /\ UNCHANGED <<parsed_resumes, screening_results, nreq, prev>>

\* The parsed-cache check with its hit ignored: the request parses anyway.
MutGetParsedIgnoresHit(w) ==
    /\ req[w].pc = "get_parsed"
    /\ \E store_ok \in BOOLEAN :
         LET r == req[w]
             h == r.file_hash[1]
             l == [LogRead(r.log, store_ok) EXCEPT
                     !.parsed_reads = @ + 1,
                     !.seen_parsed_2 = Seen(store_ok, stored_parsed(h))]
         IN req' = [req EXCEPT ![w] = [r EXCEPT !.pc = "extract", !.log = l]]
    /\ UNCHANGED <<parsed_resumes, screening_results, nreq, prev>>

\* LEVEL 2: the parsed-cache check.
GetParsed(w) ==
    /\ req[w].pc = "get_parsed"
    /\ \E store_ok \in BOOLEAN :
         LET r == req[w]
             h == r.file_hash[1]
             got == get_parsed_resume(h, store_ok)
             cached_parsed == got.value
             l == [LogRead(r.log, store_ok) EXCEPT
                     !.parsed_reads = @ + 1,
                     !.seen_parsed_2 = Seen(store_ok, stored_parsed(h))]
         IN req' = [req EXCEPT ![w] =
              IF got.raised THEN Uncaught(r, l)
              ELSE IF cached_parsed # <<>>
              THEN [r EXCEPT !.pc = "score", !.parsed = cached_parsed,
                             !.parsed_cached = TRUE, !.log = l]
              ELSE [r EXCEPT !.pc = "extract", !.log = l]]
    /\ UNCHANGED <<parsed_resumes, screening_results, nreq, prev>>

\* LEVEL 3: parse from scratch.
Extract(w) ==
    /\ req[w].pc = "extract"
    /\ CallExtractor(w, "store_parsed")
    /\ UNCHANGED <<parsed_resumes, screening_results, nreq, prev>>

\* LEVEL 3: store the fresh parsed payload.
StoreParsed(w) ==
    /\ req[w].pc = "store_parsed"
    /\ \E store_ok \in BOOLEAN :
         LET r == req[w]
             h == r.file_hash[1]
             put == store_parsed_resume(h, r.parsed[1], store_ok)
             l == [LogWrite(r.log, store_ok) EXCEPT
                     !.parsed_writes = @ + 1,
                     !.changed_parsed = @ \/ put.table # parsed_resumes]
         IN /\ parsed_resumes' = put.table
            /\ req' = [req EXCEPT ![w] =
                 IF put.raised THEN Uncaught(r, l)
                 ELSE [r EXCEPT !.pc = "score", !.log = l]]
    /\ UNCHANGED <<screening_results, nreq, prev>>

\* LEVEL 2 and 3: the Scorer call on the parsed payload in hand.  Building
\* the prompt raises when the weights lack a category; the oracle call
\* returns a payload or raises.
Score(w) ==
    /\ req[w].pc = "score"
    /\ LET r == req[w]
           jt == r.form.job_title[1]
           jd == r.form.job_description[1]
           l == [r.log EXCEPT !.scorer_calls = @ + 1]
       IN IF ~prompt_formattable(r.weights)
          THEN req' = [req EXCEPT ![w] = Answer(r, ServerError("KeyError"))]
          ELSE \/ \E v \in Variants :
                    LET screened == ScorerPayload(r.parsed[1], jt, jd, r.weights, v) IN
                    req' = [req EXCEPT ![w] =
                         [r EXCEPT !.pc = "store_screening", !.screened = <<screened>>,
                                   !.log = [l EXCEPT !.scored = <<screened>>]]]
               \/ req' = [req EXCEPT ![w] =
                       Answer([r EXCEPT !.log = l], ServerError("scorer error"))]
    /\ UNCHANGED <<parsed_resumes, screening_results, nreq, prev>>

\* LEVEL 2 and 3: store the fresh screening result, then answer.
StoreScreening(w) ==
    /\ req[w].pc = "store_screening"
    /\ \E store_ok \in BOOLEAN :
         LET r == req[w]
             h == r.file_hash[1]
             put == store_screening_result(h, r.form.job_title[1],
                                           r.form.job_description[1],
                                           r.screened[1], store_ok)
             l == [LogWrite(r.log, store_ok) EXCEPT
                     !.screening_writes = @ + 1,
                     !.changed_screening = @ \/ put.table # screening_results]
         IN /\ screening_results' = put.table
            /\ req' = [req EXCEPT ![w] =
                 IF put.raised THEN Uncaught(r, l)
                 ELSE Answer([r EXCEPT !.log = l],
                             ScreenOk(r.parsed, r.screened, r.parsed_cached, FALSE, h))]
    /\ UNCHANGED <<parsed_resumes, nreq, prev>>

Step(w) ==
    \/ ParseGetParsed(w)
    \/ ParseExtract(w)
    \/ ParseStoreParsed(w)
    \/ GetScreening(w)
    \/ GetParsedComplete(w)
    \/ GetParsed(w)
    \/ Extract(w)
    \/ StoreParsed(w)
    \/ Score(w)
    \/ StoreScreening(w)

\* Requests are handled concurrently, one per free worker.
Next ==
    \E w \in Workers :
        \/ ReceiveParse(w, FALSE)
        \/ ReceiveScreen(w, FALSE)
        \/ Step(w)

\* Requests arrive one at a time: none is admitted while another is in flight.
NextSeq ==
    \E w \in Workers :
        \/ ReceiveParse(w, TRUE)
        \/ ReceiveScreen(w, TRUE)
        \/ Step(w)

Spec == Init /\ [][Next]_vars

SeqSpec == Init /\ [][NextSeq]_vars

\* Clients that all send the same document, to /api/parse or to /api/screen
\* with the same job text and the default weights.
RaceForms == { ScreenForm(AnyDoc, AnyJob, <<>>), ParseForm(AnyDoc) }

\* Either handler up to its first cache read, for a request of RaceForms
\* (it passes every check).  prev is the request that answered last in the
\* worker slot taken.
ReceiveRace(w) ==
    /\ LowestFree(w)
    /\ nreq < MaxRaceRequests
    /\ nreq' = nreq + 1
    /\ prev' = IF req[w].pc = "done" THEN <<Summary(req[w])>> ELSE prev
    /\ \E form \in RaceForms :
         req' = [req EXCEPT ![w] =
                   Start(form, IF form.endpoint = "parse" THEN "parse_get_parsed"
                               ELSE "get_screening")]
    /\ UNCHANGED <<parsed_resumes, screening_results>>

NextRace ==
    \E w \in Workers :
        \/ ReceiveRace(w)
        \/ Step(w)

RaceSpec == Init /\ [][NextRace]_vars

\* Oracles that are functions of their inputs (one answer per input), and
\* clients that never send weights.
Deterministic ==
    \A w \in Workers :
        /\ req'[w].form.weights = <<>>
        /\ req'[w].log.extracted # <<>> => req'[w].log.extracted[1].v = 1
        /\ req'[w].log.scored # <<>> => req'[w].log.scored[1].v = 1

NextDet ==
    \E w \in Workers :
        \/ ReceiveParse(w, FALSE) /\ Deterministic
        \/ ReceiveScreen(w, FALSE) /\ Deterministic
        \/ Step(w) /\ Deterministic

DetSpec == Init /\ [][NextDet]_vars

\* The uncached workflow: parse, then screen what was parsed.
process_resume_from_bytes(file_bytes, job_title, job_description, weights, ve, vs) ==
    LET parsed == ExtractorPayload(file_bytes, ve)
        screened == ScorerPayload(parsed, job_title, job_description, weights, vs)
    IN [parsed |-> parsed, screened |-> screened]

\* ------------------------------------------------------------------ claims
Done(w) == req[w].pc = "done"

Response(w) == req[w].response[1]

\* A request that passed the handler's input checks.
ScreenRequest(w) == req[w].form.endpoint = "screen" /\ req[w].file_hash # <<>>

ParseRequest(w) == req[w].form.endpoint = "parse" /\ req[w].file_hash # <<>>

ScreenKey(r) ==
    generate_screening_key(r.file_hash[1], r.form.job_title[1],
                           r.form.job_description[1])

\* No oracle call of the request failed.
ExtractorOk(r) == r.log.extractor_calls > 0 => r.log.extracted # <<>>

ScorerOk(r) ==
    /\ prompt_formattable(r.weights)
    /\ r.log.scorer_calls > 0 => r.log.scored # <<>>

\* Both reads of the complete-hit check succeeded and found a row.
BothRowsRead(r) == r.log.seen_screening # <<>> /\ r.log.seen_parsed # <<>>

\* C1: a screen request whose two stage-1 reads both succeed and both find
\* their row is answered at once with success, parsed_cached = true,
\* screening_cached = true and exactly the two stored payloads, and it calls
\* neither the Extractor nor the Scorer.
C1_CompleteHit ==
    \A w \in Workers :
        (ScreenRequest(w) /\ BothRowsRead(req[w])) =>
            /\ Done(w)
            /\ Response(w) = ScreenOk(req[w].log.seen_parsed,
                                      req[w].log.seen_screening, TRUE, TRUE,
                                      req[w].file_hash[1])
            /\ req[w].log.extractor_calls = 0
            /\ req[w].log.scorer_calls = 0

C1_Witness ==
    \E w \in Workers : ScreenRequest(w) /\ BothRowsRead(req[w]) /\ Done(w)

\* The request started on an empty store, both oracles answered and both
\* writes succeeded.
FullMissFromEmpty(r) ==
    /\ r.log.start = "empty"
    /\ ExtractorOk(r) /\ ScorerOk(r)
    /\ ~r.log.write_faults

\* C2: a valid screen request that starts on an empty store, with Extractor,
\* Scorer and both writes succeeding, answers parsed_cached = false and
\* screening_cached = false, and when it has answered the parsed table holds
\* the Extractor's payload under the document hash and the screening table
\* holds the Scorer's payload under the screening key.
C2_FullMissPopulates ==
    \A w \in Workers :
        (ScreenRequest(w) /\ Done(w) /\ FullMissFromEmpty(req[w])) =>
            /\ req[w].log.extracted # <<>>
            /\ req[w].log.scored # <<>>
            /\ Response(w) = ScreenOk(req[w].log.extracted, req[w].log.scored,
                                      FALSE, FALSE, req[w].file_hash[1])
            /\ stored_parsed(req[w].file_hash[1]) = req[w].log.extracted
            /\ stored_screening(ScreenKey(req[w])) = req[w].log.scored

C2_Witness ==
    \E w \in Workers :
        /\ ScreenRequest(w) /\ Done(w) /\ FullMissFromEmpty(req[w])
        /\ stored_screening(ScreenKey(req[w])) = req[w].log.scored
        /\ req[w].log.scored # <<>>

\* The store was healthy, the screening read missed, the parsed read found
\* a row, and the Scorer did not fail.
ParsedOnlyHit(r) ==
    /\ Healthy(r.log)
    /\ r.log.screening_reads = 1 /\ r.log.seen_screening = <<>>
    /\ r.log.seen_parsed # <<>>
    /\ ScorerOk(r)

\* C3: with the parsed row stored and no screening row stored for the pair
\* (store healthy, Scorer succeeding), a screen request does not call the
\* Extractor, calls the Scorer once on the cached parsed payload, answers
\* parsed_cached = true, screening_cached = false with the stored parsed
\* payload, and leaves the Scorer's fresh result in the screening row.
C3_ParsedOnlyHit ==
    \A w \in Workers :
        (ScreenRequest(w) /\ Done(w) /\ ParsedOnlyHit(req[w])) =>
            /\ req[w].log.extractor_calls = 0
            /\ req[w].log.scorer_calls = 1
            /\ req[w].log.scored # <<>>
            /\ req[w].log.scored[1].parsed = req[w].log.seen_parsed[1]
            /\ Response(w) = ScreenOk(req[w].log.seen_parsed, req[w].log.scored,
                                      TRUE, FALSE, req[w].file_hash[1])
            /\ stored_screening(ScreenKey(req[w])) = req[w].log.scored

C3_Witness ==
    \E w \in Workers :
        /\ ScreenRequest(w) /\ Done(w) /\ ParsedOnlyHit(req[w])
        /\ Response(w).status = 200

\* The request before this one was a healthy /api/parse of the same bytes
\* that missed the cache and succeeded; this one ran on a healthy store.
SecondParseOfSameBytes(w) ==
    /\ ParseRequest(w) /\ Done(w) /\ Healthy(req[w].log)
    /\ prev # <<>>
    /\ prev[1].form.endpoint = "parse"
    /\ prev[1].form.file = req[w].form.file
    /\ prev[1].healthy
    /\ prev[1].response.status = 200
    /\ ~prev[1].response.body.cached

\* C4: of two /api/parse requests in sequence with byte-identical documents
\* (the first a miss, store healthy, Extractor succeeding) the first answers
\* cached = false and the second cached = true with the same data, and the
\* Extractor is called exactly once across the two.
C4_ParseIdempotent ==
    \A w \in Workers :
        SecondParseOfSameBytes(w) =>
            /\ Response(w).status = 200
            /\ Response(w).body.cached
            /\ Response(w).body.data = prev[1].response.body.data
            /\ Response(w).body.file_hash = prev[1].response.body.file_hash
            /\ prev[1].extractor_calls + req[w].log.extractor_calls = 1

C4_Witness ==
    \E w \in Workers : SecondParseOfSameBytes(w) /\ Response(w).body.cached

\* C5: for a fixed document hash, two job texts that differ in the title or
\* in the description (used verbatim, ':' included) never share a screening
\* key: no stored row of another job text of the same document has the key a
\* request derives.
C5_JobTextsNeverCollide ==
    \A w \in Workers :
        ScreenRequest(w) =>
            \A row \in screening_results :
                ( /\ row.file_hash = req[w].file_hash[1]
                  /\ \/ row.job_title # req[w].form.job_title[1]
                     \/ row.job_description # req[w].form.job_description[1] )
                => /\ composite_key(row.file_hash, row.job_title, row.job_description)
                        # composite_key(req[w].file_hash[1], req[w].form.job_title[1],
                                        req[w].form.job_description[1])
                   /\ row.screening_key # ScreenKey(req[w])

\* C6: for documents D1 # D2 and the same job text the screening keys
\* differ; a stored row of another document never has the key a request
\* derives, and a request is never handed a screening result computed for
\* another document.
C6_KeyScopedToDocument ==
    /\ \A d1 \in Docs, d2 \in Docs, j \in JobTexts :
           d1 # d2 =>
               generate_screening_key(hash_file(d1), j[1], j[2])
                   # generate_screening_key(hash_file(d2), j[1], j[2])
    /\ \A w \in Workers :
           ScreenRequest(w) =>
               /\ \A row \in screening_results :
                      row.file_hash # req[w].file_hash[1]
                          => row.screening_key # ScreenKey(req[w])
               /\ req[w].screening_result # <<>> =>
                      req[w].screening_result[1].parsed.doc = req[w].form.file[1].bytes

\* A request of one document read the screening table while the row of
\* another document with the same job text was stored.
C6_Witness ==
    \E w \in Workers :
        /\ ScreenRequest(w)
        /\ req[w].log.screening_reads = 1 /\ ~req[w].log.read_faults
        /\ \E row \in screening_results :
               /\ row.file_hash # req[w].file_hash[1]
               /\ row.job_title = req[w].form.job_title[1]
               /\ row.job_description = req[w].form.job_description[1]

FormWeights(form) ==
    IF form.weights = <<>> THEN <<>> ELSE <<json_loads(form.weights[1])>>

\* The request before this one was a successful screen request on a healthy
\* store for the same document and job text with another weight override;
\* this one ran on a healthy store.
SecondScreenOtherWeights(w) ==
    /\ ScreenRequest(w) /\ Done(w) /\ Healthy(req[w].log)
    /\ prev # <<>>
    /\ prev[1].form.endpoint = "screen"
    /\ prev[1].form.file = req[w].form.file
    /\ prev[1].form.job_title = req[w].form.job_title
    /\ prev[1].form.job_description = req[w].form.job_description
    /\ prev[1].form.weights # req[w].form.weights
    /\ prev[1].healthy
    /\ prev[1].response.status = 200

\* C7: of two screen requests in sequence for the same document and job text
\* with different weight overrides (store healthy), the second is a complete
\* hit: it answers screening_cached = true with the screening payload the
\* first one returned (computed under the first one's weights when the first
\* one computed it), and never calls the Scorer.
C7_WeightsNotInKey ==
    \A w \in Workers :
        SecondScreenOtherWeights(w) =>
            /\ Response(w).status = 200
            /\ Response(w).body.cache_status.screening_cached
            /\ Response(w).body.cache_status.parsed_cached
            /\ Response(w).body.data.screened = prev[1].response.body.data.screened
            /\ req[w].log.scorer_calls = 0
            /\ ~prev[1].response.body.cache_status.screening_cached =>
                 /\ Response(w).body.data.screened[1].weights
                        = effective_weights(FormWeights(prev[1].form))
                 /\ Response(w).body.data.screened[1].weights
                        # effective_weights(FormWeights(req[w].form))

C7_Witness ==
    \E w \in Workers :
        /\ SecondScreenOtherWeights(w)
        /\ ~prev[1].response.body.cache_status.screening_cached
        /\ Response(w).body.data.screened[1].weights
               # effective_weights(FormWeights(req[w].form))

\* C8: a cache read that fails is a miss, never an error: a valid request
\* that suffered a read fault and whose oracle calls did not fail is answered
\* with success; it is not a complete hit, and when its stage-2 read returned
\* nothing it reports parsed_cached = false.
C8_ReadFaultIsMiss ==
    \A w \in Workers :
        ( /\ ScreenRequest(w) \/ ParseRequest(w)
          /\ Done(w) /\ req[w].log.read_faults
          /\ ExtractorOk(req[w]) /\ ScorerOk(req[w]) )
        => /\ Response(w).status = 200
           /\ Response(w).body.success
           /\ ScreenRequest(w) =>
                /\ ~Response(w).body.cache_status.screening_cached
                /\ req[w].log.seen_parsed_2 = <<>> =>
                     ~Response(w).body.cache_status.parsed_cached

\* Both rows of the pair were stored when the request arrived, and a read
\* of it failed.
C8_Witness ==
    \E w \in Workers :
        /\ ScreenRequest(w) /\ Done(w) /\ req[w].log.read_faults
        /\ req[w].log.start = "complete"
        /\ Response(w).status = 200

\* The payloads a successful response of the request must carry when
\* nothing came from the cache.
FreshParse(w) ==
    Response(w) = ParseOk(req[w].log.extracted, FALSE, req[w].file_hash[1])

FreshScreen(w) ==
    Response(w) = ScreenOk(req[w].log.extracted, req[w].log.scored, FALSE, FALSE,
                           req[w].file_hash[1])

\* C9: a failed cache write does not abort the request: a valid request that
\* suffered a write fault and whose oracle calls did not fail is answered
\* with success and the freshly computed payloads; and when every store call
\* of the request failed, it is answered with success, fresh payloads and all
\* provenance flags false.
C9_WriteFaultIsolated ==
    \A w \in Workers :
        ( /\ ScreenRequest(w) \/ ParseRequest(w)
          /\ Done(w)
          /\ ExtractorOk(req[w]) /\ ScorerOk(req[w]) )
        => /\ req[w].log.write_faults =>
                /\ Response(w).status = 200
                /\ Response(w).body.success
                /\ ParseRequest(w) => FreshParse(w)
                /\ ScreenRequest(w) =>
                     /\ req[w].log.scored # <<>>
                     /\ Response(w).body.data.screened = req[w].log.scored
                     /\ req[w].log.extracted # <<>> =>
                          Response(w).body.data.parsed = req[w].log.extracted
           /\ ~req[w].log.store_ok =>
                /\ ParseRequest(w) => FreshParse(w)
                /\ ScreenRequest(w) => FreshScreen(w)

\* A screen request all of whose five store calls failed.
C9_Witness ==
    \E w \in Workers :
        /\ ScreenRequest(w) /\ Done(w)
        /\ ~req[w].log.store_ok
        /\ req[w].log.parsed_writes = 1 /\ req[w].log.screening_writes = 1
        /\ Response(w).status = 200

\* Every row holds a result of the oracle of its table for its own key.
RowsAreOracleResults ==
    /\ \A row \in parsed_resumes :
           \E d \in Docs, v \in Variants :
               /\ row.file_hash = hash_file(d)
               /\ row.parsed_data = ExtractorPayload(d, v)
    /\ \A row \in screening_results :
           /\ row.screening_key =
                  generate_screening_key(row.file_hash, row.job_title,
                                         row.job_description)
           /\ row.screening_data.v \in Variants
           /\ row.screening_data.job_title = row.job_title
           /\ row.screening_data.job_description = row.job_description
           /\ \E d \in Docs, v \in Variants :
                  /\ row.file_hash = hash_file(d)
                  /\ row.screening_data.parsed = ExtractorPayload(d, v)

\* A step writes a row only for a request whose own oracle call returned
\* that payload.
WritesFollowOracle ==
    /\ \A row \in parsed_resumes' \ parsed_resumes :
           \E w \in Workers :
               /\ req[w].pc \in {"parse_store_parsed", "store_parsed"}
               /\ req[w].log.extracted = <<row.parsed_data>>
               /\ req[w].file_hash = <<row.file_hash>>
    /\ \A row \in screening_results' \ screening_results :
           \E w \in Workers :
               /\ req[w].pc = "store_screening"
               /\ req[w].log.scored = <<row.screening_data>>
               /\ req[w].file_hash = <<row.file_hash>>

\* C10: in every reachable state each parsed row holds a payload a completed
\* Extractor call returned for that document and each screening row a
\* payload a completed Scorer call returned; a row is written only by a
\* request whose own oracle call has returned that payload, never for a
\* failed or in-flight call.
C10_NoGarbageRows == []RowsAreOracleResults /\ [][WritesFollowOracle]_vars

\* A request whose Extractor call failed has answered, its document has no
\* parsed row, and both tables hold rows of other requests.
C10_Witness ==
    \E w \in Workers :
        /\ Done(w) /\ req[w].file_hash # <<>>
        /\ req[w].log.extractor_calls = 1 /\ req[w].log.extracted = <<>>
        /\ stored_parsed(req[w].file_hash[1]) = <<>>
        /\ parsed_resumes # {} /\ screening_results # {}

\* An oracle call of the request was issued and failed.
ExtractorFault(r) == r.log.extractor_calls > 0 /\ r.log.extracted = <<>>

ScorerFault(r) == r.log.scorer_calls > 0 /\ r.log.scored = <<>>

OracleFault(r) == ExtractorFault(r) \/ ScorerFault(r)

OracleErrors == {"extractor error", "scorer error"}

\* C11 as stated: a request that ends in an Extractor or Scorer fault is
\* answered with a server error carrying the error message, and none of its
\* steps changed the contents of either cache table.
C11_OracleFaultLeavesTablesUnchanged ==
    \A w \in Workers :
        (Done(w) /\ OracleFault(req[w])) =>
            /\ \E msg \in OracleErrors : Response(w) = ServerError(msg)
            /\ ~req[w].log.changed_parsed
            /\ ~req[w].log.changed_screening

\* C11 (amended): a request that ends in an Extractor or Scorer fault is
\* answered with a server error carrying the error message and writes no row
\* for the failed stage: it never writes the screening table, after an
\* Extractor fault it never writes the parsed table, and after a Scorer
\* fault the only change it made to the parsed table, if any, is the one
\* write of the payload its own successful Extractor call returned.
C11_OracleFaultWritesNoFailedStage ==
    \A w \in Workers :
        (Done(w) /\ OracleFault(req[w])) =>
            /\ \E msg \in OracleErrors : Response(w) = ServerError(msg)
            /\ req[w].log.screening_writes = 0
            /\ ~req[w].log.changed_screening
            /\ ExtractorFault(req[w]) =>
                 req[w].log.parsed_writes = 0 /\ ~req[w].log.changed_parsed
            /\ req[w].log.changed_parsed =>
                 /\ ScorerFault(req[w])
                 /\ req[w].log.extracted # <<>>
                 /\ req[w].log.parsed_writes = 1

\* A full-miss screen request stored its fresh parsed payload, then its
\* Scorer call failed.
C11_Witness ==
    \E w \in Workers :
        /\ Done(w) /\ ScorerFault(req[w])
        /\ req[w].log.changed_parsed
        /\ stored_parsed(req[w].file_hash[1]) = req[w].log.extracted

\* The client input errors of a request form.
MissingFile(form) == form.file = <<>>

EmptyFilename(form) == form.file # <<>> /\ form.file[1].filename = <<>>

UnsupportedExtension(form) ==
    /\ form.file # <<>>
    /\ form.file[1].filename # <<>>
    /\ \A ext \in AllowedExtensions : ~endswith(lower(form.file[1].filename), ext)

MissingJobFields(form) ==
    /\ form.endpoint = "screen"
    /\ \/ form.job_title = <<>> \/ form.job_title[1] = <<>>
       \/ form.job_description = <<>> \/ form.job_description[1] = <<>>

MalformedWeights(form) ==
    /\ form.endpoint = "screen"
    /\ form.weights # <<>>
    /\ form.weights[1] = MalformedJson

ClientInputError(form) ==
    \/ MissingFile(form) \/ EmptyFilename(form) \/ UnsupportedExtension(form)
    \/ MissingJobFields(form) \/ MalformedWeights(form)

\* The request did no store read, no store write and no oracle call.
NoCoreWork(r) ==
    /\ r.log.screening_reads = 0 /\ r.log.parsed_reads = 0
    /\ r.log.parsed_writes = 0 /\ r.log.screening_writes = 0
    /\ r.log.extractor_calls = 0 /\ r.log.scorer_calls = 0
    /\ ~r.log.changed_parsed /\ ~r.log.changed_screening

\* C12: a request with a missing file part, an empty filename, an
\* unsupported extension, a missing or empty job_title/job_description or a
\* malformed weights JSON is answered by the step that receives it, with no
\* cache read, no cache write and no Extractor or Scorer call.
C12_ClientErrorsBeforeCoreWork ==
    \A w \in Workers :
        (req[w].pc # "idle" /\ ClientInputError(req[w].form)) =>
            /\ Done(w)
            /\ NoCoreWork(req[w])

\* A request with malformed weights has been answered while the store held
\* both rows of its document and job text.
C12_Witness ==
    \E w \in Workers :
        /\ Done(w) /\ MalformedWeights(req[w].form)
        /\ StoreAtStart(req[w].form) = "complete"

\* C13: every request rejected for a missing file, an empty filename, an
\* unsupported extension, missing job fields or a malformed weights JSON is
\* answered with status 400, never with status 500.
C13_ClientErrorsGet400 ==
    \A w \in Workers :
        (Done(w) /\ ClientInputError(req[w].form)) =>
            /\ Response(w).status = 400
            /\ Response(w).status # 500

\* C14: every request that reaches a handler ends in exactly one response,
\* and every response that is not a success has the body
\* {success: false, error: <message>}.
C14_UniformFailureEnvelope ==
    \A w \in Workers :
        Done(w) =>
            /\ Len(req[w].response) = 1
            /\ Response(w).status # 200 =>
                 /\ DOMAIN Response(w).body = {"success", "error"}
                 /\ Response(w).body.success = FALSE

\* The request before this one was a successful screen request on a healthy
\* store for the same document with another job text; this one ran on a
\* healthy store and its Scorer call did not fail.
SecondScreenOtherJob(w) ==
    /\ ScreenRequest(w) /\ Done(w) /\ Healthy(req[w].log)
    /\ ScorerOk(req[w])
    /\ prev # <<>>
    /\ prev[1].form.endpoint = "screen"
    /\ prev[1].form.file = req[w].form.file
    /\ \/ prev[1].form.job_title # req[w].form.job_title
       \/ prev[1].form.job_description # req[w].form.job_description
    /\ prev[1].healthy
    /\ prev[1].response.status = 200

\* C15: after a successful screen request for a document with job text J1
\* (store healthy), a screen request for the same document with a job text
\* J2 # J1 answers screening_cached = false and parsed_cached = true, calls
\* the Scorer with J2, and does not return the screening payload computed
\* for J1.
C15_OtherJobScreenedAfresh ==
    \A w \in Workers :
        SecondScreenOtherJob(w) =>
            /\ Response(w).status = 200
            /\ ~Response(w).body.cache_status.screening_cached
            /\ Response(w).body.cache_status.parsed_cached
            /\ req[w].log.scorer_calls = 1
            /\ req[w].log.scored # <<>>
            /\ req[w].log.scored[1].job_title = req[w].form.job_title[1]
            /\ req[w].log.scored[1].job_description = req[w].form.job_description[1]
            /\ Response(w).body.data.screened # prev[1].response.body.data.screened

\* The parsed payload a screen request has in hand for the Scorer: the one
\* its stage-2 read returned, or the one its own Extractor call returned.
ParsedInHand(r) ==
    IF r.parsed_cached THEN r.log.seen_parsed_2 ELSE r.log.extracted

\* C16: within a screen request the Scorer is called only with a parsed
\* payload in hand, read from the parsed cache or returned by the request's
\* own Extractor call, and its input is exactly that payload; the stages run
\* in the order complete, parsed-only, full miss, each only when the one
\* before it was not satisfied, and no stage runs twice.
C16_ScorerAfterParse ==
    \A w \in Workers :
        ScreenRequest(w) =>
            LET r == req[w] IN
            /\ r.pc \in {"score", "store_screening"} =>
                 /\ r.parsed # <<>>
                 /\ r.parsed = ParsedInHand(r)
            /\ r.log.scorer_calls > 0 =>
                 /\ r.parsed # <<>>
                 /\ r.parsed = ParsedInHand(r)
                 /\ r.log.screening_reads = 1 /\ r.log.parsed_reads = 2
                 /\ ~BothRowsRead(r)
                 /\ r.log.scored # <<>> => r.log.scored[1].parsed = r.parsed[1]
            /\ r.log.extractor_calls > 0 =>
                 /\ r.log.parsed_reads = 2
                 /\ ~BothRowsRead(r)
                 /\ r.log.seen_parsed_2 = <<>>
                 /\ ~r.parsed_cached
            /\ r.log.seen_parsed_2 # <<>> => r.parsed_cached
            /\ r.log.parsed_reads = 2 => r.log.screening_reads = 1
            /\ BothRowsRead(r) => r.log.parsed_reads = 1
            /\ r.log.extractor_calls <= 1 /\ r.log.scorer_calls <= 1

\* One request scored a cached parsed payload while another scored the
\* payload of its own Extractor call.
C16_Witness ==
    \E w \in Workers, u \in Workers :
        /\ ScreenRequest(w) /\ req[w].log.scored # <<>> /\ req[w].parsed_cached
        /\ ScreenRequest(u) /\ req[u].log.scored # <<>> /\ ~req[u].parsed_cached
        /\ req[u].log.extractor_calls = 1

RECURSIVE SumOver(_, _)
SumOver(m, S) ==
    IF S = {} THEN 0
    ELSE LET k == CHOOSE x \in S : TRUE IN m[k] + SumOver(m, S \ {k})

\* The weights of a mapping add up to 1.0 (100 in whole percent).
SumsToOne(m) == SumOver(m, DOMAIN m) = 100

\* C17: when the caller supplies no weights, the Scorer uses a mapping over
\* exactly the categories skills, experience, education, projects and
\* cultural_fit whose weights sum to 1.0.
C17_DefaultWeightsSumToOne ==
    \A w \in Workers :
        (ScreenRequest(w) /\ req[w].weights = <<>> /\ req[w].log.scored # <<>>) =>
            /\ DOMAIN req[w].log.scored[1].weights = Categories
            /\ SumsToOne(req[w].log.scored[1].weights)

\* C18: a screen request with a caller-supplied weight mapping that reaches
\* the scoring step with a parsed payload in hand issues the Scorer call
\* with the mapping as given; when the oracle call itself does not fail the
\* request is answered with success, whatever the mapping.
C18_WeightsPassThrough ==
    \A w \in Workers :
        ( /\ ScreenRequest(w) /\ Done(w)
          /\ req[w].weights # <<>>
          /\ req[w].parsed # <<>>
          /\ ~ScorerFault(req[w]) )
        => /\ req[w].log.scorer_calls = 1
           /\ req[w].log.scored # <<>>
           /\ req[w].log.scored[1].weights = req[w].weights[1]
           /\ Response(w).status = 200

\* A step keeps every screening row as it is.
ScreeningRowsKept == screening_results \subseteq screening_results'

\* C19 as stated: once a screening row has been written under a key, no
\* step of any request changes the payload stored under that key.
C19_ScreeningRowsImmutable == [][ScreeningRowsKept]_vars

\* A step keeps a row under every screening key, and replaces a row only
\* by the store of a fresh Scorer result of a request for that key whose
\* complete-hit check had not returned both rows.
ScreeningRowsReplacedOnMiss ==
    \A row \in screening_results :
        /\ \E new \in screening_results' : new.screening_key = row.screening_key
        /\ row \notin screening_results' =>
             \E w \in Workers :
                 /\ req[w].pc = "store_screening"
                 /\ ScreenKey(req[w]) = row.screening_key
                 /\ ~BothRowsRead(req[w])
                 /\ req[w].log.scored # <<>>
                 /\ stored_screening(row.screening_key)' = req[w].log.scored
                 /\ req'[w].log.changed_screening

\* C19 (amended): once a screening row has been written under a key, a row
\* stays stored under that key; its payload is replaced only when a request
\* for that key whose complete-hit check did not return both rows (a read
\* fault, a missing parsed row, or a read made before the row was written)
\* stores the fresh result of its own Scorer call.
C19_ScreeningRowsReplacedOnlyOnMiss == [][ScreeningRowsReplacedOnMiss]_vars

\* A request that arrived with both of its rows stored has replaced the
\* screening row by a fresh result.
C19_Witness ==
    \E w \in Workers :
        /\ ScreenRequest(w) /\ Done(w)
        /\ req[w].log.start = "complete"
        /\ req[w].log.changed_screening
        /\ stored_screening(ScreenKey(req[w])) = req[w].log.scored

\* A step keeps every parsed row as it is.
ParsedRowsKept == parsed_resumes \subseteq parsed_resumes'

\* C20 as stated: once a parsed row has been written under a document hash,
\* no step of any parse or screen request changes or removes the payload
\* stored under that hash.
C20_ParsedRowsImmutable == [][ParsedRowsKept]_vars

\* The last parsed-cache read of a request before it parses.
LastParsedRead(r) ==
    IF r.form.endpoint = "parse" THEN r.log.seen_parsed ELSE r.log.seen_parsed_2

\* A step keeps a row under every document hash, and replaces a row only by
\* the store of a fresh Extractor result of a request for that document
\* whose parsed-cache read had returned nothing.
ParsedRowsReplacedOnMiss ==
    \A row \in parsed_resumes :
        /\ \E new \in parsed_resumes' : new.file_hash = row.file_hash
        /\ row \notin parsed_resumes' =>
             \E w \in Workers :
                 /\ req[w].pc \in {"parse_store_parsed", "store_parsed"}
                 /\ req[w].file_hash = <<row.file_hash>>
                 /\ LastParsedRead(req[w]) = <<>>
                 /\ req[w].log.extracted # <<>>
                 /\ stored_parsed(row.file_hash)' = req[w].log.extracted
                 /\ req'[w].log.changed_parsed

\* C20 (amended): once a parsed row has been written under a document hash,
\* no request removes it; its payload is replaced only when a request for
\* that document whose parsed-cache read returned nothing (a read fault, or
\* a read made before the row was written) stores the fresh result of its
\* own Extractor call.
C20_ParsedRowsReplacedOnlyOnMiss == [][ParsedRowsReplacedOnMiss]_vars

\* A request that arrived with its parsed row stored has replaced it by a
\* fresh Extractor result.
C20_Witness ==
    \E w \in Workers :
        /\ Done(w) /\ req[w].file_hash # <<>>
        /\ req[w].log.start = "complete"
        /\ req[w].log.changed_parsed
        /\ stored_parsed(req[w].file_hash[1]) = req[w].log.extracted

\* Two requests for the same document have both parsed it and answered.
BothParsed(w, u) ==
    /\ w # u
    /\ Done(w) /\ Done(u)
    /\ req[w].file_hash # <<>> /\ req[w].file_hash = req[u].file_hash
    /\ req[w].log.extracted # <<>> /\ req[u].log.extracted # <<>>

\* Neither caller gets an error from the other's write: each is answered
\* with the payload of its own Extractor call unless its Scorer call failed.
RacersBothServed ==
    \A w \in Workers, u \in Workers :
        (BothParsed(w, u) /\ ScorerOk(req[w])) =>
            /\ req[w].log.extractor_calls = 1
            /\ req[w].log.parsed_writes = 1
            /\ LastParsedRead(req[w]) = <<>>
            /\ Response(w).status = 200
            /\ ParseRequest(w) => Response(w).body.data = req[w].log.extracted
            /\ ScreenRequest(w) => Response(w).body.data.parsed = req[w].log.extracted

\* A successful write of the parsed row leaves the writer's payload stored,
\* whatever was stored before.
LastWriterWins ==
    \A w \in Workers :
        ( /\ req[w].pc \in {"parse_store_parsed", "store_parsed"}
          /\ req'[w].log.parsed_writes = req[w].log.parsed_writes + 1
          /\ ~req'[w].log.write_faults )
        => stored_parsed(req[w].file_hash[1])' = req[w].log.extracted

\* C21: there is no single-flight de-duplication: two concurrent requests
\* for the same uncached document can both miss the parsed cache, both call
\* the Extractor and both write the parsed row; the later write replaces the
\* earlier one, and neither caller gets an error.
C21_NoSingleFlight == []RacersBothServed /\ [][LastWriterWins]_vars

\* Two requests for the same document, on a store without faults, both
\* missed, both called the Extractor, and each one's write changed the row.
C21_Witness ==
    \E w \in Workers, u \in Workers :
        /\ BothParsed(w, u)
        /\ Healthy(req[w].log) /\ Healthy(req[u].log)
        /\ req[w].log.start = "empty" /\ req[u].log.start = "empty"
        /\ req[w].log.changed_parsed /\ req[u].log.changed_parsed
        /\ req[w].log.extracted # req[u].log.extracted
        /\ Response(w).status = 200 /\ Response(u).status = 200

\* C22: in every success response file_hash is hash_file of the uploaded
\* bytes: two requests with the same bytes report the same file_hash,
\* whatever the endpoint, stage, job text, weights or interleaving, and two
\* requests with different bytes report different ones.
C22_FileHashOfBytesOnly ==
    \A w \in Workers, u \in Workers :
        (Done(w) /\ Response(w).status = 200 /\ Done(u) /\ Response(u).status = 200)
        => LET fh(x) == IF req[x].form.endpoint = "parse"
                        THEN Response(x).body.file_hash
                        ELSE Response(x).body.cache_status.file_hash
           IN /\ fh(w) = hash_file(req[w].form.file[1].bytes)
              /\ req[w].form.file[1].bytes = req[u].form.file[1].bytes
                    <=> fh(w) = fh(u)

\* Two requests with different bytes have answered, and so have a cached
\* and an uncached request with the same bytes.
C22_Witness ==
    \E w \in Workers, u \in Workers :
        /\ Done(w) /\ Response(w).status = 200
        /\ Done(u) /\ Response(u).status = 200
        /\ req[w].form.file[1].bytes = req[u].form.file[1].bytes
        /\ req[w].form.endpoint = "parse" /\ Response(w).body.cached
        /\ req[u].form.endpoint = "screen"
        /\ ~Response(u).body.cache_status.parsed_cached

\* C23 as stated: in stage 1 the parsed row is read only if the screening
\* read returned a row, so a screen request whose screening read returned
\* nothing has read the parsed table once when it has finished stage 2.
C23_ParsedReadOnlyAfterScreeningHit ==
    \A w \in Workers :
        ( /\ ScreenRequest(w)
          /\ req[w].log.screening_reads = 1
          /\ req[w].screening_result = <<>> )
        => /\ req[w].pc = "get_parsed" => req[w].log.parsed_reads = 0
           /\ req[w].pc \in {"extract", "store_parsed", "score", "store_screening", "done"}
                 => req[w].log.parsed_reads = 1

\* C23 (amended): in stage 1 the screening row is read first and the parsed
\* row is read next whether or not the screening read returned a row; a
\* screen request that is not served the complete hit reads the parsed table
\* a second time in stage 2, so a request whose screening read returned
\* nothing performs exactly two reads of the parsed table.
C23_ParsedReadUnconditional ==
    \A w \in Workers :
        ScreenRequest(w) =>
            /\ req[w].log.parsed_reads > 0 => req[w].log.screening_reads = 1
            /\ req[w].pc = "get_screening" =>
                 req[w].log.screening_reads = 0 /\ req[w].log.parsed_reads = 0
            /\ req[w].pc = "get_parsed_complete" => req[w].log.parsed_reads = 0
            /\ req[w].pc = "get_parsed" => req[w].log.parsed_reads = 1
            /\ ( /\ req[w].log.screening_reads = 1
                 /\ req[w].screening_result = <<>>
                 /\ req[w].pc \in {"extract", "store_parsed", "score",
                                   "store_screening", "done"} )
               => req[w].log.parsed_reads = 2

\* A request whose screening read found no row has answered after two reads
\* of the parsed table.
C23_Witness ==
    \E w \in Workers :
        /\ ScreenRequest(w) /\ Done(w) /\ Healthy(req[w].log)
        /\ req[w].log.seen_screening = <<>>
        /\ req[w].log.parsed_reads = 2
        /\ Response(w).status = 200

CompleteHit(w) ==
    /\ Response(w).status = 200
    /\ Response(w).body.cache_status.parsed_cached
    /\ Response(w).body.cache_status.screening_cached

\* C24: a screen response reports parsed_cached = true and screening_cached
\* = true only if both stage-1 reads of that request returned a stored row,
\* and then it carries those two rows; when the screening row is found but
\* the parsed read returns nothing (no row, or a read fault) the response is
\* not a complete hit.
C24_CompleteOnlyIfBothRead ==
    \A w \in Workers :
        (ScreenRequest(w) /\ Done(w)) =>
            /\ CompleteHit(w) =>
                 /\ req[w].screening_result # <<>>
                 /\ req[w].parsed_resume # <<>>
                 /\ BothRowsRead(req[w])
                 /\ Response(w).body.data.screened = req[w].log.seen_screening
                 /\ Response(w).body.data.parsed = req[w].log.seen_parsed
            /\ (req[w].screening_result # <<>> /\ req[w].parsed_resume = <<>>) =>
                 ~CompleteHit(w)

\* A request found the screening row, got nothing from the stage-1 parsed
\* read although the row was stored, and answered without a complete hit.
C24_Witness ==
    \E w \in Workers :
        /\ ScreenRequest(w) /\ Done(w)
        /\ req[w].log.start = "complete"
        /\ req[w].screening_result # <<>> /\ req[w].parsed_resume = <<>>
        /\ Response(w).status = 200
        /\ ~Response(w).body.cache_status.screening_cached

\* C25: within one request the Extractor is called at most once and the
\* Scorer at most once; when a call fails the request ends at once in a
\* server error, with no second call of that oracle, no later stage and no
\* store write for the failed stage.
C25_NoRetry ==
    \A w \in Workers :
        /\ req[w].log.extractor_calls <= 1
        /\ req[w].log.scorer_calls <= 1
        /\ ExtractorFault(req[w]) =>
             /\ Done(w)
             /\ \E msg \in OracleErrors : Response(w) = ServerError(msg)
             /\ req[w].log.parsed_writes = 0
             /\ req[w].log.scorer_calls = 0
             /\ req[w].log.screening_writes = 0
        /\ ScorerFault(req[w]) =>
             /\ Done(w)
             /\ \E msg \in OracleErrors : Response(w) = ServerError(msg)
             /\ req[w].log.screening_writes = 0

\* A request failed in the Extractor and another in the Scorer.
C25_Witness ==
    \E w \in Workers, u \in Workers :
        /\ Done(w) /\ ExtractorFault(req[w])
        /\ Done(u) /\ ScorerFault(req[u]) /\ req[u].log.parsed_writes = 1

\* A full-miss screen request whose Extractor call and parsed write
\* succeeded and whose Scorer call failed.
ParsedThenScorerFault(r) ==
    /\ r.form.endpoint = "screen"
    /\ r.log.extracted # <<>>
    /\ r.log.parsed_writes = 1 /\ ~r.log.write_faults
    /\ ScorerFault(r)

\* The request before this one was such a request on a healthy store, and
\* this one is the same request again, on a healthy store.
RepeatAfterScorerFault(w) ==
    /\ ScreenRequest(w) /\ Done(w) /\ Healthy(req[w].log)
    /\ prev # <<>>
    /\ prev[1].form = req[w].form
    /\ prev[1].healthy
    /\ prev[1].extractor_calls = 1 /\ prev[1].scorer_calls = 1
    /\ prev[1].response = ServerError("scorer error")

\* C27: a full-miss screen request whose Extractor call and parsed write
\* succeed and whose Scorer call fails is answered with a server error,
\* writes no screening row and leaves its parsed row stored; the next
\* identical request (store healthy) finds that row, does not call the
\* Extractor, and when no screening row is stored for the pair it takes the
\* parsed-only stage: one Scorer call on the cached payload, parsed_cached =
\* true and screening_cached = false.
C27_ScorerFaultKeepsParse ==
    \A w \in Workers :
        /\ (Done(w) /\ ParsedThenScorerFault(req[w])) =>
             /\ Response(w) = ServerError("scorer error")
             /\ req[w].log.screening_writes = 0
             /\ ~req[w].log.changed_screening
             /\ stored_parsed(req[w].file_hash[1]) = req[w].log.extracted
        /\ RepeatAfterScorerFault(w) =>
             /\ req[w].log.extractor_calls = 0
             /\ req[w].log.seen_parsed # <<>>
             /\ req[w].log.seen_screening # <<>> => CompleteHit(w)
             /\ req[w].log.seen_screening = <<>> =>
                  /\ req[w].parsed_cached
                  /\ req[w].log.scorer_calls = 1
                  /\ req[w].log.scored # <<>> =>
                       Response(w) = ScreenOk(req[w].log.seen_parsed_2,
                                              req[w].log.scored, TRUE, FALSE,
                                              req[w].file_hash[1])

\* The repeated request took the parsed-only stage and succeeded.
C27_Witness ==
    \E w \in Workers :
        /\ RepeatAfterScorerFault(w)
        /\ Response(w).status = 200
        /\ Response(w).body.cache_status.parsed_cached
        /\ ~Response(w).body.cache_status.screening_cached

\* C28: a request writes the parsed table only after its own Extractor call
\* has returned and the screening table only after its own Scorer call has
\* returned; a complete-hit screen request and a cache-hit parse request
\* write nothing, a parsed-only-hit screen request does not write the
\* parsed table, and a /api/parse request neither reads nor writes the
\* screening table.
C28_WritesOnlyAfterOwnOracle ==
    \A w \in Workers :
        LET r == req[w] IN
        /\ r.log.parsed_writes > 0 =>
             r.log.extracted # <<>> /\ r.parsed = r.log.extracted
        /\ r.log.screening_writes > 0 =>
             r.log.scored # <<>> /\ r.screened = r.log.scored
        /\ r.log.changed_parsed => r.log.parsed_writes > 0
        /\ r.log.changed_screening => r.log.screening_writes > 0
        /\ (ScreenRequest(w) /\ BothRowsRead(r)) =>
             r.log.parsed_writes = 0 /\ r.log.screening_writes = 0
        /\ (ParseRequest(w) /\ r.log.seen_parsed # <<>>) =>
             r.log.parsed_writes = 0 /\ r.log.screening_writes = 0
        /\ r.parsed_cached => r.log.parsed_writes = 0
        /\ r.form.endpoint = "parse" =>
             /\ r.log.screening_reads = 0
             /\ r.log.screening_writes = 0
             /\ r.log.scorer_calls = 0

\* A parsed-only-hit screen request has written the screening row and left
\* the parsed row another request's Extractor call produced.
C28_Witness ==
    \E w \in Workers :
        /\ ScreenRequest(w) /\ Done(w) /\ req[w].parsed_cached
        /\ req[w].log.changed_screening
        /\ req[w].log.parsed_writes = 0
        /\ stored_parsed(req[w].file_hash[1]) = req[w].parsed

\* C26: in every screen response, whatever the interleaving and the store
\* faults, and with oracles that may answer differently on different calls,
\* the screened payload was produced by a Scorer call whose parsed input is
\* the parsed payload of the same response.
C26_PairConsistent ==
    \A w \in Workers :
        (ScreenRequest(w) /\ Done(w) /\ Response(w).status = 200) =>
            /\ Response(w).body.data.parsed # <<>>
            /\ Response(w).body.data.screened # <<>>
            /\ Response(w).body.data.screened[1].parsed
                   = Response(w).body.data.parsed[1]

\* Both rows of the request's pair are stored.
PairStored(r) ==
    /\ stored_parsed(r.file_hash[1]) # <<>>
    /\ stored_screening(ScreenKey(r)) # <<>>

\* C30: on a healthy store with succeeding oracles, every screen request
\* that has completed, raced or not, leaves the parsed row and the screening
\* row of its pair stored; and an identical request that arrives once both
\* rows are stored is a complete hit that calls neither oracle and performs
\* no store write.
C30_ConvergesAfterRace ==
    \A w \in Workers :
        (ScreenRequest(w) /\ Done(w) /\ Healthy(req[w].log)) =>
            /\ Response(w).status = 200 => PairStored(req[w])
            /\ req[w].log.start = "complete" =>
                 /\ CompleteHit(w)
                 /\ BothRowsRead(req[w])
                 /\ req[w].log.extractor_calls = 0
                 /\ req[w].log.scorer_calls = 0
                 /\ req[w].log.parsed_writes = 0
                 /\ req[w].log.screening_writes = 0

\* Two screen requests for the pair raced on a healthy store (each called
\* both oracles) and completed; a third, identical one was then served the
\* complete hit.
C30_Witness ==
    \E w \in Workers, u \in Workers :
        /\ w # u /\ nreq = 3
        /\ ScreenRequest(w) /\ Done(w) /\ Healthy(req[w].log)
        /\ req[w].log.start = "complete" /\ CompleteHit(w)
        /\ ScreenRequest(u) /\ Done(u) /\ Healthy(req[u].log)
        /\ req[u].log.extractor_calls = 1 /\ req[u].log.scorer_calls = 1
        /\ Response(u).status = 200
        /\ prev # <<>> /\ prev[1].form = req[w].form /\ prev[1].healthy
        /\ prev[1].extractor_calls = 1 /\ prev[1].scorer_calls = 1
        /\ prev[1].response.status = 200
        /\ req[w].log.seen_screening = req[u].log.scored

\* The data the uncached handler returns for the request's document and job
\* text when its oracles answer as the deterministic ones do.
UncachedData(form) ==
    LET result == process_resume_from_bytes(form.file[1].bytes, form.job_title[1],
                                            form.job_description[1], <<>>, 1, 1)
    IN [parsed |-> <<result.parsed>>, screened |-> <<result.screened>>]

\* C29: with deterministic oracles and default weights throughout, for
\* every cache state and every pattern of store faults, the data {parsed,
\* screened} of a successful response of the cached screen handler equals
\* the data the uncached handler returns for the same document, job title
\* and job description.
C29_CachedRefinesUncached ==
    \A w \in Workers :
        (ScreenRequest(w) /\ Done(w) /\ Response(w).status = 200) =>
            Response(w).body.data = UncachedData(req[w].form)

=============================================================================
